---------------------------- MODULE Spec2Model ----------------------------
(***************************************************************************)
(* Expense tracker (exp_app.py): a Streamlit script over three SQLite      *)
(* tables.  Every user interaction re-runs main() once: the run opens the  *)
(* database, renders the page chosen in the sidebar, executes the handler  *)
(* of the button that was pressed (if any) and closes the connection.      *)
(*                                                                         *)
(*   db    the database as the open connection sees it                     *)
(*   disk  the committed database (what survives the process)              *)
(*   view  what the last run of main() rendered: the page, the message,    *)
(*         the listed rows or charted series, the submitted amount and     *)
(*         the arguments of the add_expense call it made (call)            *)
(*   pc    position inside set_total_budget (used by SpecCrash only)       *)
(*   hist  history variables: they record what was asked of the store and  *)
(*         are never read by the modelled code (assigned: the identifiers  *)
(*         given to new expenses, in order; total, budget: the amounts     *)
(*         last asked for; dropped: the categories whose budget was last   *)
(*         deleted)                                                        *)
(***************************************************************************)
EXTENDS Integers, Sequences, FiniteSets

VARIABLES db, disk, view, pc, hist

vars == <<db, disk, view, pc, hist>>

-----------------------------------------------------------------------------
(* Bounds of the model *)

MaxAmount == 2
MaxDate == 2
MaxCategories == 2
MaxSeq == 2
MaxTotalSeq == 2

-----------------------------------------------------------------------------
(* Widget domains *)

\* the predefined category list of the two selectboxes
categories ==
    <<"Food", "Transportation", "Utilities", "Entertainment",
      "Shopping", "Healthcare", "Education", "Rent", "Miscellaneous">>

\* the labels a selectbox can return (the first MaxCategories of the list)
Categories == {categories[i] : i \in 1..MaxCategories}

\* st.number_input("Expense Amount", min_value=0.0): no value below 0
AmountInputs == 0..MaxAmount

\* st.number_input("Total Budget", min_value=0.0)
TotalBudgetInputs == 0..MaxAmount

\* mutant of BudgetInputs: the input has no min_value
BudgetInputsNoMin == (-1)..MaxAmount

\* st.number_input("Set Budget Amount", min_value=0.0)
BudgetInputs == 0..MaxAmount

\* st.text_input("Description (Optional)"): free text that the program
\* stores and shows and never inspects; one value stands for all
Descriptions == {"lunch"}

\* st.date_input: calendar days, numbered in chronological order
Dates == 1..MaxDate

-----------------------------------------------------------------------------
(* SQL helpers.  A value that may be NULL / None is a sequence of length   *)
(* at most one: <<>> is NULL, <<v>> is v.                                  *)

NULL == <<>>

Max2(a, b) == IF a >= b THEN a ELSE b

MaxId(rows) ==
    IF rows = {} THEN 0
    ELSE CHOOSE m \in {r.id : r \in rows} : \A r \in rows : r.id <= m

MinId(rows) ==
    CHOOSE m \in {r.id : r \in rows} : \A r \in rows : m <= r.id

RECURSIVE SumAmount(_)
SumAmount(rows) ==
    IF rows = {} THEN 0
    ELSE LET r == CHOOSE x \in rows : TRUE
         IN r.amount + SumAmount(rows \ {r})

\* mutant of sql_sum: SUM(DISTINCT amount)
sql_sum_distinct(rows) ==
    IF rows = {} THEN NULL
    ELSE <<SumAmount({[amount |-> a] : a \in {r.amount : r \in rows}})>>

\* SUM(amount): NULL over no rows
sql_sum(rows) == IF rows = {} THEN NULL ELSE <<SumAmount(rows)>>

\* python's  v or 0  on a fetched column
or0(v) == IF v = NULL \/ v[1] = 0 THEN 0 ELSE v[1]

\* mutant of autoincrement_rowid: a plain INTEGER PRIMARY KEY
plain_rowid(rows, seqno) == MaxId(rows) + 1

\* INTEGER PRIMARY KEY AUTOINCREMENT: one more than the largest rowid the
\* table ever held (sqlite_sequence), so no rowid is handed out twice
autoincrement_rowid(rows, seqno) == Max2(seqno, MaxId(rows)) + 1

\* the empty schema created by init_database
EmptyDb ==
    [expenses |-> {}, budgets |-> {}, total_budget |-> {},
     sqlite_sequence |-> [expenses |-> 0, total_budget |-> 0]]

-----------------------------------------------------------------------------
(* The store functions: each maps a database to the database after the    *)
(* statement(s) and the commit.                                           *)

add_expense(d, amount, category, description, date) ==
    LET id == autoincrement_rowid(d.expenses, d.sqlite_sequence.expenses)
    IN [d EXCEPT
          !.expenses = @ \cup {[id |-> id, amount |-> amount,
                                category |-> category,
                                description |-> description, date |-> date]},
          !.sqlite_sequence.expenses = id]

\* INSERT OR REPLACE: the row with the same primary key is removed first
set_budget(d, category, budget_amount) ==
    [d EXCEPT !.budgets =
        {r \in @ : r.category # category}
            \cup {[category |-> category, budget_amount |-> budget_amount]}]

\* DELETE FROM total_budget
delete_total_budget(d) == [d EXCEPT !.total_budget = {}]

\* INSERT INTO total_budget (budget_amount) VALUES (?)
insert_total_budget(d, budget_amount) ==
    LET id == autoincrement_rowid(d.total_budget,
                                  d.sqlite_sequence.total_budget)
    IN [d EXCEPT
          !.total_budget = @ \cup {[id |-> id,
                                    budget_amount |-> budget_amount]},
          !.sqlite_sequence.total_budget = id]

\* mutant of set_total_budget: the DELETE is missing
set_total_budget_no_delete(d, budget_amount) ==
    insert_total_budget(d, budget_amount)

set_total_budget(d, budget_amount) ==
    insert_total_budget(delete_total_budget(d), budget_amount)

\* SELECT budget_amount FROM total_budget LIMIT 1; fetchone(): the table is
\* scanned in rowid order, so LIMIT 1 keeps the row with the least id
get_total_budget(d) ==
    LET result == IF d.total_budget = {} THEN NULL
                  ELSE <<(CHOOSE r \in d.total_budget :
                             r.id = MinId(d.total_budget)).budget_amount>>
    IN IF result # NULL THEN result[1] ELSE 0

get_total_expenses(d) == or0(sql_sum(d.expenses))

\* mutant of get_expenses_by_category: one entry for every category
get_expenses_by_category_all(d) ==
    [c \in Categories |-> SumAmount({r \in d.expenses : r.category = c})]

\* SELECT category, SUM(amount) ... GROUP BY category, as a dict
get_expenses_by_category(d) ==
    [c \in {r.category : r \in d.expenses} |->
        SumAmount({r \in d.expenses : r.category = c})]

\* mutant of get_budget: the WHERE clause is missing
get_budget_no_where(d, category) ==
    LET result == IF d.budgets = {} THEN NULL
                  ELSE <<(CHOOSE r \in d.budgets : TRUE).budget_amount>>
    IN IF result # NULL THEN result[1] ELSE 0

get_budget(d, category) ==
    LET found == {r \in d.budgets : r.category = category}
        result == IF found = {} THEN NULL
                  ELSE <<(CHOOSE r \in found : TRUE).budget_amount>>
    IN IF result # NULL THEN result[1] ELSE 0

delete_expense(d, expense_id) ==
    [d EXCEPT !.expenses = {r \in @ : r.id # expense_id}]

\* mutant of delete_budget: the WHERE clause is missing
delete_budget_no_where(d, category) == [d EXCEPT !.budgets = {}]

delete_budget(d, category) ==
    [d EXCEPT !.budgets = {r \in @ : r.category # category}]

\* the orders in which a query may return `rows`
Orderings(rows) ==
    {s \in [1..Cardinality(rows) -> rows] :
        \A i, j \in 1..Cardinality(rows) : i # j => s[i] # s[j]}

\* mutant of OrderByDateDesc: ORDER BY date (ascending)
OrderByDateAsc(s) == \A i, j \in 1..Len(s) : i < j => s[i].date <= s[j].date

\* ORDER BY date DESC
OrderByDateDesc(s) == \A i, j \in 1..Len(s) : i < j => s[i].date >= s[j].date

\* SELECT * FROM expenses ORDER BY date DESC: the query names no second
\* sort key, so rows of one date come in any order
select_expenses(d) == {s \in Orderings(d.expenses) : OrderByDateDesc(s)}

\* DataFrame(rows, columns=[ID, Amount, Category, Description, Date])
\*   .to_csv(index=False): the header line, then one line per row
to_csv(rows) ==
    <<<<"ID", "Amount", "Category", "Description", "Date">>>>
    \o [i \in 1..Len(rows) |->
          <<rows[i].id, rows[i].amount, rows[i].category,
            rows[i].description, rows[i].date>>]

export_expenses_to_csv(d) == {to_csv(rows) : rows \in select_expenses(d)}

-----------------------------------------------------------------------------
(* One run of main(): the page it renders and the handler it executes.    *)
(* A button can be pressed only on the page that the last run rendered.   *)

IdlePc == [at |-> "idle", arg |-> NULL]

\* a fresh session shows the first menu entry, no button pressed
FirstPage == [choice |-> "Add Expense", pressed |-> FALSE]

Init ==
    /\ db = EmptyDb
    /\ disk = EmptyDb
    /\ view = FirstPage
    /\ pc = IdlePc
    /\ hist = [assigned |-> <<>>, total |-> NULL,
               budget |-> [c \in Categories |-> NULL], dropped |-> {}]

\* mutant of ValidAmount: if amount >= 0
ValidAmountOrZero(amount) == amount >= 0

\* if amount > 0
ValidAmount(amount) == amount > 0

\* "Add Expense" page, no button pressed
AddExpensePage ==
    /\ pc = IdlePc
    /\ view' = FirstPage
    /\ UNCHANGED <<db, disk, pc, hist>>

\* "Add Expense" page, button "Add Expense" pressed
AddExpenseButton ==
    \E amount \in AmountInputs, category \in Categories,
       description \in Descriptions, date \in Dates :
        /\ pc = IdlePc
        /\ view.choice = "Add Expense"
        /\ ValidAmount(amount) => db.sqlite_sequence.expenses < MaxSeq
        /\ db' = IF ValidAmount(amount)
                 THEN add_expense(db, amount, category, description, date)
                 ELSE db
        /\ disk' = db'
        /\ view' = [choice |-> "Add Expense", pressed |-> TRUE,
                    amount |-> amount,
                    call |-> IF ValidAmount(amount)
                             THEN <<[amount |-> amount,
                                     category |-> category,
                                     description |-> description,
                                     date |-> date]>>
                             ELSE NULL,
                    msg |-> IF ValidAmount(amount) THEN "success"
                            ELSE "error"]
        /\ hist' = [hist EXCEPT !.assigned =
                      LET new == db'.expenses \ db.expenses
                      IN IF new = {} THEN @
                         ELSE Append(@, (CHOOSE r \in new : TRUE).id)]
        /\ UNCHANGED pc

\* what the "Expense Report" page shows of database d
ExpenseReport(d) ==
    {[choice |-> "Expense Report", rows |-> rows,
      total_expenses |-> get_total_expenses(d)] : rows \in select_expenses(d)}

\* "Expense Report" page, no button pressed
ExpenseReportPage ==
    /\ pc = IdlePc
    /\ view' \in ExpenseReport(db)
    /\ UNCHANGED <<db, disk, pc, hist>>

\* "Expense Report" page, the "Delete" button of a listed row pressed:
\* delete_expense, then st.experimental_rerun() renders the page again
DeleteExpenseButton ==
    /\ pc = IdlePc
    /\ view.choice = "Expense Report"
    /\ \E i \in 1..Len(view.rows) :
          db' = delete_expense(db, view.rows[i].id)
    /\ disk' = db'
    /\ view' \in ExpenseReport(db')
    /\ UNCHANGED <<pc, hist>>

\* what the "Budget Management" page shows of database d
BudgetManagement(d, msg) ==
    [choice |-> "Budget Management", msg |-> msg, budgets |-> d.budgets,
     total_budget |-> get_total_budget(d)]

\* "Budget Management" page, no button pressed
BudgetManagementPage ==
    /\ pc = IdlePc
    /\ view' = BudgetManagement(db, "none")
    /\ UNCHANGED <<db, disk, pc, hist>>

\* "Budget Management" page, button "Set Total Budget" pressed
SetTotalBudgetButton ==
    \E total_budget \in TotalBudgetInputs :
        /\ pc = IdlePc
        /\ view.choice = "Budget Management"
        /\ db.sqlite_sequence.total_budget < MaxTotalSeq
        /\ db' = set_total_budget(db, total_budget)
        /\ disk' = db'
        /\ view' = BudgetManagement(db', "Total Budget Set Successfully!")
        /\ hist' = [hist EXCEPT !.total = <<total_budget>>]
        /\ UNCHANGED pc

\* "Budget Management" page, button "Set Category Budget" pressed
SetCategoryBudgetButton ==
    \E category \in Categories, budget_amount \in BudgetInputs :
        /\ pc = IdlePc
        /\ view.choice = "Budget Management"
        /\ db' = set_budget(db, category, budget_amount)
        /\ disk' = db'
        /\ view' = BudgetManagement(db', "Category Budget Set Successfully!")
        /\ hist' = [hist EXCEPT !.budget[category] = <<budget_amount>>,
                                !.dropped = @ \ {category}]
        /\ UNCHANGED pc

\* "Budget Management" page, the "Delete" button of a listed budget pressed:
\* delete_budget, then st.experimental_rerun() renders the page again
DeleteBudgetButton ==
    /\ pc = IdlePc
    /\ view.choice = "Budget Management"
    /\ \E row \in view.budgets :
          /\ db' = delete_budget(db, row.category)
          /\ hist' = [hist EXCEPT !.budget[row.category] = NULL,
                                  !.dropped = @ \cup {row.category}]
    /\ disk' = db'
    /\ view' = BudgetManagement(db', "none")
    /\ UNCHANGED pc

\* "Visualizations" page: the series handed to the three charts.  The keys
\* of the dict come in the order the GROUP BY query returned them, which
\* the query leaves open.
VisualizationsPage ==
    /\ pc = IdlePc
    /\ LET expenses_by_category == get_expenses_by_category(db)
       IN \E keys \in Orderings(DOMAIN expenses_by_category) :
            view' = [choice |-> "Visualizations",
                     expenses_by_category |-> expenses_by_category,
                     pie |-> expenses_by_category # <<>>,
                     categories |-> keys,
                     actual_spending |->
                        [i \in 1..Len(keys) |-> expenses_by_category[keys[i]]],
                     budgets |->
                        [i \in 1..Len(keys) |-> get_budget(db, keys[i])],
                     total_budget |-> get_total_budget(db),
                     total_expenses |-> get_total_expenses(db)]
    /\ UNCHANGED <<db, disk, pc, hist>>

\* "Export Data" page: the file offered for download
ExportDataPage ==
    /\ pc = IdlePc
    /\ \E csv_file \in export_expenses_to_csv(db) :
          view' = [choice |-> "Export Data", csv_file |-> csv_file]
    /\ UNCHANGED <<db, disk, pc, hist>>

\* the whole application
Next ==
    \/ AddExpensePage
    \/ AddExpenseButton
    \/ ExpenseReportPage
    \/ DeleteExpenseButton
    \/ BudgetManagementPage
    \/ SetTotalBudgetButton
    \/ SetCategoryBudgetButton
    \/ DeleteBudgetButton
    \/ VisualizationsPage
    \/ ExportDataPage

Spec == Init /\ [][Next]_vars

\* the expense pages alone
NextLedger ==
    \/ AddExpensePage
    \/ AddExpenseButton
    \/ ExpenseReportPage
    \/ DeleteExpenseButton
    \/ VisualizationsPage
    \/ ExportDataPage

SpecLedger == Init /\ [][NextLedger]_vars

\* the budget page alone
NextBudget ==
    \/ BudgetManagementPage
    \/ SetTotalBudgetButton
    \/ SetCategoryBudgetButton
    \/ DeleteBudgetButton

SpecBudget == Init /\ [][NextBudget]_vars

-----------------------------------------------------------------------------
(* set_total_budget statement by statement, with interruption.  The       *)
(* connection is opened with the sqlite3 module's default isolation       *)
(* level: the first DELETE/INSERT opens a transaction implicitly and      *)
(* nothing reaches the disk before conn.commit().                         *)

\* mutant of StbDelete: a connection in autocommit mode, the DELETE is
\* durable at once
StbDeleteAutocommit ==
    \E total_budget \in TotalBudgetInputs :
        /\ pc = IdlePc
        /\ view.choice = "Budget Management"
        /\ db.sqlite_sequence.total_budget < MaxTotalSeq
        /\ db' = delete_total_budget(db)
        /\ disk' = db'
        /\ pc' = [at |-> "deleted", arg |-> <<total_budget>>]
        /\ UNCHANGED <<view, hist>>

\* button "Set Total Budget" pressed; cursor.execute(DELETE FROM total_budget)
StbDelete ==
    \E total_budget \in TotalBudgetInputs :
        /\ pc = IdlePc
        /\ view.choice = "Budget Management"
        /\ db.sqlite_sequence.total_budget < MaxTotalSeq
        /\ db' = delete_total_budget(db)
        /\ pc' = [at |-> "deleted", arg |-> <<total_budget>>]
        /\ UNCHANGED <<disk, view, hist>>

\* cursor.execute(INSERT INTO total_budget ...)
StbInsert ==
    /\ pc.at = "deleted"
    /\ db' = insert_total_budget(db, pc.arg[1])
    /\ pc' = [pc EXCEPT !.at = "inserted"]
    /\ UNCHANGED <<disk, view, hist>>

\* conn.commit(), then the rest of the run
StbCommit ==
    /\ pc.at = "inserted"
    /\ disk' = db
    /\ pc' = IdlePc
    /\ view' = BudgetManagement(db, "Total Budget Set Successfully!")
    /\ hist' = [hist EXCEPT !.total = pc.arg]
    /\ UNCHANGED db

\* the process dies or a statement fails inside set_total_budget: the
\* transaction is never committed, SQLite rolls it back, and the next
\* session starts from the committed database
Crash ==
    /\ pc.at # "idle"
    /\ db' = disk
    /\ pc' = IdlePc
    /\ view' = FirstPage
    /\ UNCHANGED <<disk, hist>>

NextCrash ==
    \/ StbDelete
    \/ StbInsert
    \/ StbCommit
    \/ Crash
    \/ BudgetManagementPage
    \/ SetCategoryBudgetButton
    \/ DeleteBudgetButton

SpecCrash == Init /\ [][NextCrash]_vars

-----------------------------------------------------------------------------
(* Properties *)

Range(s) == {s[i] : i \in 1..Len(s)}

RECURSIVE SeqSumAmount(_)
SeqSumAmount(s) ==
    IF s = <<>> THEN 0 ELSE Head(s).amount + SeqSumAmount(Tail(s))

\* the value of a history entry: 0 while nothing is set
Asked(h) == IF h = NULL THEN 0 ELSE h[1]

\* the listed amounts of one category, in listing order
OfCategory(rows, c) == SelectSeq(rows, LAMBDA r : r.category = c)

\* C1: whatever was done before, total_budget holds at most one row and
\* get_total_budget returns the argument of the latest set_total_budget,
\* or 0 when there was none; the Budget Management page shows that value.
C1_TotalBudgetSingleton ==
    /\ Cardinality(db.total_budget) <= 1
    /\ get_total_budget(db) = Asked(hist.total)
    /\ view.choice = "Budget Management"
          => view.total_budget = Asked(hist.total)

\* C1 witness: a second set_total_budget has replaced the first
C1_Witness ==
    /\ db.sqlite_sequence.total_budget = 2
    /\ hist.total = <<1>>
    /\ view.choice = "Budget Management"
    /\ view.total_budget = 1
    /\ db.budgets # {}

\* C2: the total of the expenses is the sum of the amounts of the listed
\* expenses, whichever order they are listed in, and it is the number 0 when
\* there is none; the Expense Report shows that total beside its rows.
C2_TotalIsSumOfListed ==
    /\ get_total_expenses(db) \in Int
    /\ \A rows \in select_expenses(db) :
          get_total_expenses(db) = SeqSumAmount(rows)
    /\ db.expenses = {} => get_total_expenses(db) = 0
    /\ view.choice = "Expense Report"
          => /\ view.total_expenses = SeqSumAmount(view.rows)
             /\ Range(view.rows) = db.expenses

\* C2 witness: two expenses were added and one deleted; the report totals
\* the remaining one
C2_Witness ==
    /\ view.choice = "Expense Report"
    /\ Len(hist.assigned) = 2
    /\ Len(view.rows) = 1
    /\ view.total_expenses = 2

\* C2 witness of the sum proper: two listed expenses of the same amount
C2_WitnessTwo ==
    /\ view.choice = "Expense Report"
    /\ Len(view.rows) = 2
    /\ view.rows[1].amount = view.rows[2].amount
    /\ view.total_expenses = 4

\* C9: each category has at most one budget row, get_budget returns the
\* amount of the latest set_budget of that category that no delete_budget
\* followed, and 0 otherwise; hence a set or delete of one category leaves
\* the budget of every other category as it was.
C9_CategoryBudgets ==
    \A c \in Categories :
        /\ Cardinality({r \in db.budgets : r.category = c}) <= 1
        /\ get_budget(db, c) = Asked(hist.budget[c])
        /\ (hist.budget[c] = NULL) = (\A r \in db.budgets : r.category # c)

\* C9 witness: the budget of one category was deleted while another
\* category keeps the amount it was given
C9_Witness ==
    /\ view.choice = "Budget Management"
    /\ view.msg = "none"
    /\ "Food" \in hist.dropped
    /\ get_budget(db, "Food") = 0
    /\ get_budget(db, "Transportation") = 2
    /\ hist.budget["Transportation"] = <<2>>

\* C3 as stated: add_expense given an amount <= 0 or an empty category
\* stores nothing (told of a ledger that holds expenses: the expenses are
\* the same before and after), so that every stored expense has an
\* amount > 0.
C3_AddExpenseRejects ==
    /\ db.expenses # {} =>
          \A amount \in (-MaxAmount)..MaxAmount,
             category \in Categories \cup {""},
             description \in Descriptions, date \in Dates :
               (amount <= 0 \/ category = "")
                  => add_expense(db, amount, category, description, date) = db
    /\ \A r \in db.expenses : r.amount > 0

\* C3 amended: a press of "Add Expense" with an amount <= 0 shows the error
\* message and leaves the database as it was, and every stored expense has
\* an amount > 0 and one of the predefined categories.
C3_HandlerRejects ==
    [][/\ (/\ view'.choice = "Add Expense"
           /\ view'.pressed
           /\ view'.amount <= 0)
          => /\ db' = db
             /\ disk' = disk
             /\ view'.call = NULL
             /\ view'.msg = "error"
       /\ \A r \in db.expenses \cup db'.expenses :
             r.amount > 0 /\ r.category \in Categories]_vars

\* C3 witness: an amount of 0 was refused while expenses are stored
C3_Witness ==
    /\ view.choice = "Add Expense"
    /\ view.pressed
    /\ view.amount = 0
    /\ view.msg = "error"
    /\ Cardinality(db.expenses) = 1

\* C4 as stated: set_budget and set_total_budget given an amount < 0 leave
\* the stored budgets as they were (told of a store that holds a category
\* budget and a total budget).
C4_SettersReject ==
    (db.budgets # {} /\ db.total_budget # {}) =>
        \A category \in Categories, budget_amount \in (-MaxAmount)..(-1) :
            /\ set_budget(db, category, budget_amount) = db
            /\ set_total_budget(db, budget_amount) = db

\* C4 amended: no stored category budget and no stored total budget is
\* negative, in the connection's view or on disk.
C4_NoNegativeBudget ==
    \A d \in {db, disk} :
        /\ \A r \in d.budgets : r.budget_amount >= 0
        /\ \A r \in d.total_budget : r.budget_amount >= 0

\* C4 witness: the least amounts the inputs allow are stored
C4_Witness ==
    /\ \E r \in db.budgets : r.budget_amount = 0
    /\ \E r \in db.total_budget : r.budget_amount = 0

\* date descending, and identifier descending within one date
DateDescIdDesc(s) ==
    \A i, j \in 1..Len(s) :
        i < j => \/ s[i].date > s[j].date
                 \/ s[i].date = s[j].date /\ s[i].id > s[j].id

\* the lines of a CSV file after its header, as rows
CsvRows(csv) ==
    [i \in 1..(Len(csv) - 1) |->
        [id |-> csv[i + 1][1], amount |-> csv[i + 1][2],
         category |-> csv[i + 1][3], description |-> csv[i + 1][4],
         date |-> csv[i + 1][5]]]

\* C5 as stated: the report and the export list the expenses by date
\* descending and, within one date, by identifier descending.
C5_TiesByIdDesc ==
    /\ view.choice = "Expense Report" => DateDescIdDesc(view.rows)
    /\ view.choice = "Export Data" => DateDescIdDesc(CsvRows(view.csv_file))

\* C5 amended: the report and the export each list every stored expense
\* once, no later date after an earlier one; the export starts with the
\* header line.
C5_ByDateDesc ==
    /\ view.choice = "Expense Report"
          => /\ Range(view.rows) = db.expenses
             /\ Len(view.rows) = Cardinality(db.expenses)
             /\ \A i \in 1..(Len(view.rows) - 1) :
                   view.rows[i].date >= view.rows[i + 1].date
    /\ view.choice = "Export Data"
          => LET rows == CsvRows(view.csv_file)
             IN /\ view.csv_file[1] =
                      <<"ID", "Amount", "Category", "Description", "Date">>
                /\ Range(rows) = db.expenses
                /\ Len(rows) = Cardinality(db.expenses)
                /\ \A i \in 1..(Len(rows) - 1) :
                      rows[i].date >= rows[i + 1].date

\* C5 witness: the export lists the older of two expenses last although it
\* has the greater identifier
C5_Witness ==
    /\ view.choice = "Export Data"
    /\ Len(view.csv_file) = 3
    /\ view.csv_file[2][5] > view.csv_file[3][5]
    /\ view.csv_file[2][1] < view.csv_file[3][1]

\* C6: the identifiers given to new expenses strictly increase, so none is
\* given twice, deleted or not; stored identifiers are unique; and the
\* expense just added is stored and listed with the submitted amount,
\* category, description and date.
C6_FreshIdentifiers ==
    /\ \A i, j \in 1..Len(hist.assigned) :
          i < j => hist.assigned[i] < hist.assigned[j]
    /\ \A r \in db.expenses : r.id \in Range(hist.assigned)
    /\ \A r1, r2 \in db.expenses : r1.id = r2.id => r1 = r2
    /\ (/\ view.choice = "Add Expense"
        /\ view.pressed
        /\ view.msg = "success")
          => LET added == [id |-> hist.assigned[Len(hist.assigned)],
                           amount |-> view.call[1].amount,
                           category |-> view.call[1].category,
                           description |-> view.call[1].description,
                           date |-> view.call[1].date]
             IN /\ view.call[1].amount = view.amount
                /\ added \in db.expenses
                /\ \A rows \in select_expenses(db) : added \in Range(rows)

\* C6 witness: an expense added after the only other one was deleted
C6_Witness ==
    /\ view.choice = "Add Expense"
    /\ view.pressed
    /\ view.msg = "success"
    /\ Len(hist.assigned) = 2
    /\ Cardinality(db.expenses) = 1

\* C7: expenses_by_category has a key exactly for the categories of the
\* stored expenses, and each value is the sum of the amounts of the stored
\* expenses of that category; the Visualizations page charts that mapping.
C7_ExpensesByCategory ==
    LET m == get_expenses_by_category(db)
    IN /\ \A c \in Categories \cup {""} :
             (c \in DOMAIN m) = (\E r \in db.expenses : r.category = c)
       /\ \A c \in DOMAIN m : \A rows \in select_expenses(db) :
             m[c] = SeqSumAmount(OfCategory(rows, c))
       /\ view.choice = "Visualizations"
             => /\ view.expenses_by_category = m
                /\ view.pie = (db.expenses # {})

\* C7 witness: two Food expenses of 2 and 1 are charted as Food: 3, and
\* the category without expenses has no key
C7_Witness ==
    /\ view.choice = "Visualizations"
    /\ DOMAIN view.expenses_by_category = {"Food"}
    /\ view.expenses_by_category["Food"] = 3
    /\ Cardinality(db.expenses) = 2

C8_WitnessNoBudget ==
    /\ view.choice = "Visualizations"
    /\ view.categories = <<"Food">>
    /\ view.budgets = <<0>>
    /\ view.actual_spending = <<2>>
    /\ hist.budget["Food"] = NULL
    /\ hist.budget["Transportation"] = <<1>>

\* C10: wherever set_total_budget is interrupted, the committed total
\* budget is the value of the last completed set_total_budget, whole (one
\* row) or absent if none completed: never an empty table in place of a
\* set value, never two rows; the next session reads the committed state.
C10_CommittedTogether ==
    /\ Cardinality(disk.total_budget) <= 1
    /\ (disk.total_budget = {}) = (hist.total = NULL)
    /\ get_total_budget(disk) = Asked(hist.total)
    /\ pc.at = "idle" => db = disk

\* C10 witness: a set_total_budget was interrupted after an earlier one
\* had completed with 1, and the new session reads 1
C10_Witness ==
    /\ view = FirstPage
    /\ pc.at = "idle"
    /\ hist.total = <<1>>
    /\ get_total_budget(db) = 1

=============================================================================
